---- MODULE Spec2Model ----
(***************************************************************************)
(* Model of the "12 masses" balance puzzle (src/src/main.rs).              *)
(*                                                                         *)
(* A String is a sequence of one-character strings, a Vec<Mass> a sequence *)
(* of records [name, weight].  The program counter pc is the position of   *)
(* main / manual_solve / auto_solve; every blocking read of stdin and every*)
(* weighing of auto_solve is one step.                                     *)
(***************************************************************************)
EXTENDS Integers, Sequences, FiniteSets, TLC

\* ---------------------------------------------------------------- bounds
\* longest text typed for a group selection
MaxSelLen == 2
\* longest text typed for the final guess
MaxGuessLen == 3
\* largest number of attempts asked of the automatic solver
MaxAttempts == 2

\* ------------------------------------------------------------- constants
NumMasses == 12
InitialMeasurements == 3

Labels == <<"A", "B", "C", "D", "E", "F", "G", "H", "I", "J", "K", "L">>

\* characters that can be typed: an upper-case label, a lower-case label,
\* a letter that is no label, a digit, a blank
InputChars == {"A", "b", "z", "1", " "}

Lowers == <<"a", "b", "c", "d", "e", "f", "g", "h", "i", "j", "k", "l", "z">>
Uppers == <<"A", "B", "C", "D", "E", "F", "G", "H", "I", "J", "K", "L", "Z">>

Range(s) == {s[i] : i \in DOMAIN s}

RECURSIVE StringsUpTo(_)
StringsUpTo(n) ==
  IF n = 0 THEN {<<>>}
  ELSE LET shorter == StringsUpTo(n - 1)
       IN  shorter \cup {Append(s, c) : s \in {t \in shorter : Len(t) = n - 1}, c \in InputChars}

Selections == StringsUpTo(MaxSelLen)
Guesses == StringsUpTo(MaxGuessLen)

\* ------------------------------------------------------ string functions
to_uppercase_char(c) ==
  IF \E i \in DOMAIN Lowers : Lowers[i] = c
  THEN Uppers[CHOOSE i \in DOMAIN Lowers : Lowers[i] = c]
  ELSE c

to_uppercase(s) == [i \in DOMAIN s |-> to_uppercase_char(s[i])]

is_alphabetic(c) == c \in Range(Lowers) \cup Range(Uppers)

is_whitespace(c) == c \in {" ", "\n"}

RECURSIVE trim_start(_)
trim_start(s) ==
  IF s # <<>> /\ is_whitespace(Head(s)) THEN trim_start(Tail(s)) ELSE s

RECURSIVE trim_end(_)
trim_end(s) ==
  IF s # <<>> /\ is_whitespace(s[Len(s)])
  THEN trim_end(SubSeq(s, 1, Len(s) - 1))
  ELSE s

trim(s) == trim_end(trim_start(s))

\* read_line keeps the line terminator
get_input(typed) == Append(typed, "\n")

\* ----------------------------------------------------------- the masses
setup_masses_oneBased(index_of_different) ==
  [i \in 1..NumMasses |->
     [name |-> Labels[i],
      weight |-> IF i = index_of_different THEN "Different" ELSE "Same"]]

setup_masses(index_of_different) ==
  [i \in 1..NumMasses |->
     [name |-> Labels[i],
      weight |-> IF i = index_of_different + 1 THEN "Different" ELSE "Same"]]

RECURSIVE select_chars(_, _)
select_chars(masses, chars) ==
  IF chars = <<>> THEN <<>>
  ELSE LET c == Head(chars)
           rest == select_chars(masses, Tail(chars))
       IN  IF is_alphabetic(c) /\ \E i \in DOMAIN masses : masses[i].name = c
           THEN <<masses[CHOOSE i \in DOMAIN masses :
                           /\ masses[i].name = c
                           /\ \A j \in 1..(i - 1) : masses[j].name # c]>> \o rest
           ELSE rest

select_masses(masses, selection) == select_chars(masses, to_uppercase(selection))

get_mass_names(masses) == [i \in DOMAIN masses |-> masses[i].name]

RECURSIVE side_weight(_)
side_weight(side) ==
  IF side = <<>> THEN 0
  ELSE (IF Head(side).weight = "Different" THEN 1 ELSE 0) + side_weight(Tail(side))

weigh_swapped(left, right) ==
  LET left_weight == side_weight(left)
      right_weight == side_weight(right)
  IN  IF left_weight < right_weight THEN "LeftHeavy"
      ELSE IF left_weight > right_weight THEN "RightHeavy"
      ELSE "Balanced"

weigh(left, right) ==
  LET left_weight == side_weight(left)
      right_weight == side_weight(right)
  IN  IF left_weight > right_weight THEN "LeftHeavy"
      ELSE IF left_weight < right_weight THEN "RightHeavy"
      ELSE "Balanced"

RECURSIVE get_answer(_)
get_answer(masses) ==
  IF masses = <<>> THEN <<>>
  ELSE (IF Head(masses).weight = "Different" THEN <<Head(masses).name>> ELSE <<>>)
       \o get_answer(Tail(masses))

guess_untrimmed(masses, line) == to_uppercase(line) = get_answer(masses)

guess(masses, line) == trim(to_uppercase(line)) = get_answer(masses)

compare_results_first(first, second) ==
  IF first = "Balanced" THEN "Balanced"
  ELSE IF first = second THEN "Same"
  ELSE "Opposite"

compare_results(first, second) ==
  IF second = "Balanced" THEN "Balanced"
  ELSE IF first = second THEN "Same"
  ELSE "Opposite"

BalanceValues == {"Balanced", "LeftHeavy", "RightHeavy"}

\* ------------------------------------------------------------------ state
VARIABLES
  pc,            \* position in main / manual_solve / auto_solve
  method,        \* SolveMethod of the session: "None", "Manual", "Auto"
  masses,        \* the registry built by setup_masses
  measurements,  \* manual_solve: measurements left
  weighings,     \* number of calls of weigh in the current solve
  left_side,     \* the left group selected for the weighing at hand
  right_side,    \* the right group selected (auto_solve: of the last weighing)
  balance,       \* outcome of the last weighing, as printed
  input,         \* guess: the line read
  answer,        \* auto_solve: get_answer(&masses)
  result_1,      \* auto_solve: outcomes of the weighings
  result_2,
  result_3,
  comparisons,   \* auto_solve: the outcome comparisons made
  final_result,  \* auto_solve: the label guessed
  log,           \* auto_solve: the weighings of the current run, as printed
  attempts,      \* main: runs of auto_solve still to make
  runs,          \* main: record of the runs made, with their transcript
  verdict        \* GameResult returned by the last solve

vars == <<pc, method, masses, measurements, weighings, left_side, right_side,
          balance, input, answer, result_1, result_2, result_3, comparisons,
          final_result, log, attempts, runs, verdict>>

autoLocals == <<answer, result_1, result_2, result_3, comparisons, final_result, log>>
manualLocals == <<measurements, input>>

Fresh ==
  /\ method = "None"
  /\ masses = <<>>
  /\ measurements = 0
  /\ weighings = 0
  /\ left_side = <<>>
  /\ right_side = <<>>
  /\ balance = "None"
  /\ input = <<>>
  /\ answer = <<>>
  /\ result_1 = "None"
  /\ result_2 = "None"
  /\ result_3 = "None"
  /\ comparisons = <<>>
  /\ final_result = "None"
  /\ log = <<>>
  /\ attempts = 0
  /\ runs = <<>>
  /\ verdict = "None"

Init == pc = "menu" /\ Fresh

\* ----------------------------------------------------------- manual_solve
LoopContinues_inclusive(m) == m >= 0

\* the loop condition of manual_solve
LoopContinues(m) == m > 0

\* main, 'manual': manual_solve runs up to its first read
ChooseManual(index_of_different) ==
  /\ pc = "menu"
  /\ method' = "Manual"
  /\ masses' = setup_masses(index_of_different)
  /\ measurements' = InitialMeasurements
  /\ pc' = IF LoopContinues(measurements') THEN "m_left" ELSE "m_guess"
  /\ UNCHANGED <<weighings, left_side, right_side, balance, input, attempts, runs, verdict>>
  /\ UNCHANGED autoLocals

\* the left selection is read and the left group built
ManualReadLeft(typed) ==
  /\ pc = "m_left"
  /\ left_side' = select_masses(masses, get_input(typed))
  /\ pc' = "m_right"
  /\ UNCHANGED <<method, masses, measurements, weighings, right_side, balance, input,
                 attempts, runs, verdict>>
  /\ UNCHANGED autoLocals

\* the right selection is read, the groups are weighed, the counter decremented;
\* the two groups are locals of the loop body and are dropped at its end
ManualReadRight(typed) ==
  /\ pc = "m_right"
  /\ balance' = weigh(left_side, select_masses(masses, get_input(typed)))
  /\ left_side' = <<>>
  /\ right_side' = <<>>
  /\ weighings' = weighings + 1
  /\ measurements' = measurements - 1
  /\ pc' = IF LoopContinues(measurements') THEN "m_left" ELSE "m_guess"
  /\ UNCHANGED <<method, masses, input, attempts, runs, verdict>>
  /\ UNCHANGED autoLocals

\* the guess is read and judged
ManualGuess(typed) ==
  /\ pc = "m_guess"
  /\ input' = get_input(typed)
  /\ verdict' = IF guess(masses, input') THEN "Win" ELSE "Lose"
  /\ pc' = "done"
  /\ UNCHANGED <<method, masses, measurements, weighings, left_side, right_side,
                 balance, attempts, runs>>
  /\ UNCHANGED autoLocals

\* ------------------------------------------------------------- auto_solve
Str_ABCD == <<"A", "B", "C", "D">>
Str_EFGH == <<"E", "F", "G", "H">>
Str_IJ == <<"I", "J">>
Str_KA == <<"K", "A">>
Str_JK == <<"J", "K">>
Str_AB == <<"A", "B">>
Str_ABE == <<"A", "B", "E">>
Str_CDF == <<"C", "D", "F">>
Str_G == <<"G">>
Str_I == <<"I">>
Str_ED == <<"E", "D">>
Str_FB == <<"F", "B">>

\* ez_measure, with the transcript of the weighing
ez_measure(left, right) ==
  /\ left_side' = select_masses(masses, left)
  /\ right_side' = select_masses(masses, right)
  /\ balance' = weigh(left_side', right_side')
  /\ weighings' = weighings + 1
  /\ log' = Append(log, [left |-> get_mass_names(left_side'),
                         right |-> get_mass_names(right_side'),
                         balance |-> balance'])

\* main, 'auto': the number of attempts is read
ChooseAuto(n) ==
  /\ pc = "menu"
  /\ method' = "Auto"
  /\ attempts' = n
  /\ pc' = IF n > 0 THEN "a_start" ELSE "done"
  /\ UNCHANGED <<masses, weighings, left_side, right_side, balance, runs, verdict>>
  /\ UNCHANGED autoLocals
  /\ UNCHANGED manualLocals

\* auto_solve starts: the registry is set up and the answer is read off
AutoSetup(index_of_different) ==
  /\ pc = "a_start"
  /\ masses' = setup_masses(index_of_different)
  /\ answer' = get_answer(masses')
  /\ result_1' = "None"
  /\ result_2' = "None"
  /\ result_3' = "None"
  /\ comparisons' = <<>>
  /\ final_result' = "None"
  /\ log' = <<>>
  /\ weighings' = 0
  /\ left_side' = <<>>
  /\ right_side' = <<>>
  /\ balance' = "None"
  /\ pc' = "a_w1"
  /\ UNCHANGED <<method, attempts, runs, verdict>>
  /\ UNCHANGED manualLocals

AfterFirst_inverted(result) ==
  IF result = "Balanced" THEN "a_w2unbal" ELSE "a_w2bal"

\* the branch on result_1
AfterFirst(result) ==
  IF result = "Balanced" THEN "a_w2bal" ELSE "a_w2unbal"

AutoWeigh1 ==
  /\ pc = "a_w1"
  /\ ez_measure(Str_ABCD, Str_EFGH)
  /\ result_1' = balance'
  /\ pc' = AfterFirst(result_1')
  /\ UNCHANGED <<method, masses, answer, result_2, result_3, comparisons, final_result,
                 attempts, runs, verdict>>
  /\ UNCHANGED manualLocals

AfterSecondBalanced_always3(result) == "a_w3jk"

\* the branch on result_2 when result_1 is Balanced
AfterSecondBalanced(result) ==
  IF result = "Balanced" THEN "a_end" ELSE "a_w3jk"

AutoWeigh2Bal ==
  /\ pc = "a_w2bal"
  /\ ez_measure(Str_IJ, Str_KA)
  /\ result_2' = balance'
  /\ final_result' = IF result_2' = "Balanced" THEN "L" ELSE final_result
  /\ pc' = AfterSecondBalanced(result_2')
  /\ UNCHANGED <<method, masses, answer, result_1, result_3, comparisons,
                 attempts, runs, verdict>>
  /\ UNCHANGED manualLocals

DecideIJK_swapped(comparison) ==
  CASE comparison = "Balanced" -> "I"
    [] comparison = "Same" -> "K"
    [] comparison = "Opposite" -> "J"

\* the table of the branch I, J, K
DecideIJK(comparison) ==
  CASE comparison = "Balanced" -> "I"
    [] comparison = "Same" -> "J"
    [] comparison = "Opposite" -> "K"

AutoWeigh3JK ==
  /\ pc = "a_w3jk"
  /\ ez_measure(Str_JK, Str_AB)
  /\ result_3' = balance'
  /\ comparisons' = <<compare_results(result_2, result_3')>>
  /\ final_result' = DecideIJK(comparisons'[1])
  /\ pc' = "a_end"
  /\ UNCHANGED <<method, masses, answer, result_1, result_2, attempts, runs, verdict>>
  /\ UNCHANGED manualLocals

\* the branch on result_2 when result_1 is not Balanced
AfterSecondUnbalanced(result) ==
  IF result = "Balanced" THEN "a_w3gi" ELSE "a_w3ed"

AutoWeigh2Unbal ==
  /\ pc = "a_w2unbal"
  /\ ez_measure(Str_ABE, Str_CDF)
  /\ result_2' = balance'
  /\ pc' = AfterSecondUnbalanced(result_2')
  /\ UNCHANGED <<method, masses, answer, result_1, result_3, comparisons, final_result,
                 attempts, runs, verdict>>
  /\ UNCHANGED manualLocals

AutoWeigh3GIWith(reference) ==
  /\ pc = "a_w3gi"
  /\ ez_measure(Str_G, reference)
  /\ result_3' = balance'
  /\ final_result' = IF result_3' = "Balanced" THEN "H" ELSE "G"
  /\ pc' = "a_end"
  /\ UNCHANGED <<method, masses, answer, result_1, result_2, comparisons,
                 attempts, runs, verdict>>
  /\ UNCHANGED manualLocals

AutoWeigh3GI_anyReference == \E c \in {"I", "J"} : AutoWeigh3GIWith(<<c>>)

AutoWeigh3GI == AutoWeigh3GIWith(Str_I)

\* the table of the branch A..F; "panic" is the arm that panics
DecideAF(pair) ==
  CASE pair = <<"Same", "Balanced">> -> "A"
    [] pair = <<"Same", "Same">> -> "F"
    [] pair = <<"Same", "Opposite">> -> "B"
    [] pair = <<"Opposite", "Balanced">> -> "C"
    [] pair = <<"Opposite", "Same">> -> "E"
    [] pair = <<"Opposite", "Opposite">> -> "D"
    [] OTHER -> "panic"

AutoWeigh3ED ==
  /\ pc = "a_w3ed"
  /\ ez_measure(Str_ED, Str_FB)
  /\ result_3' = balance'
  /\ comparisons' = <<compare_results(result_1, result_2),
                      compare_results(result_2, result_3')>>
  /\ final_result' = IF DecideAF(comparisons') = "panic" THEN final_result
                     ELSE DecideAF(comparisons')
  /\ pc' = IF DecideAF(comparisons') = "panic" THEN "panic" ELSE "a_end"
  /\ UNCHANGED <<method, masses, answer, result_1, result_2, attempts, runs, verdict>>
  /\ UNCHANGED manualLocals

\* the verdict of auto_solve, recorded by main
AutoFinish ==
  /\ pc = "a_end"
  /\ IF answer = <<>>
     THEN /\ pc' = "panic"
          /\ UNCHANGED <<verdict, runs, attempts>>
     ELSE /\ verdict' = IF final_result = Head(answer) THEN "Win" ELSE "Lose"
          /\ runs' = Append(runs, [answer |-> answer, log |-> log,
                                   final_result |-> final_result, result |-> verdict'])
          /\ attempts' = attempts - 1
          /\ pc' = IF attempts' > 0 THEN "a_start" ELSE "done"
  /\ UNCHANGED <<method, masses, weighings, left_side, right_side, balance>>
  /\ UNCHANGED autoLocals
  /\ UNCHANGED manualLocals

\* ------------------------------------------------------------------- main
\* 'y' to the start-over question: every local of the session is dropped
Startover ==
  /\ pc = "done"
  /\ pc' = "menu"
  /\ method' = "None"
  /\ masses' = <<>>
  /\ measurements' = 0
  /\ weighings' = 0
  /\ left_side' = <<>>
  /\ right_side' = <<>>
  /\ balance' = "None"
  /\ input' = <<>>
  /\ answer' = <<>>
  /\ result_1' = "None"
  /\ result_2' = "None"
  /\ result_3' = "None"
  /\ comparisons' = <<>>
  /\ final_result' = "None"
  /\ log' = <<>>
  /\ attempts' = 0
  /\ runs' = <<>>
  /\ verdict' = "None"

Next ==
  \/ \E i \in 0..(NumMasses - 1) : ChooseManual(i)
  \/ \E t \in Selections : ManualReadLeft(t)
  \/ \E t \in Selections : ManualReadRight(t)
  \/ \E t \in Guesses : ManualGuess(t)
  \/ \E n \in 0..MaxAttempts : ChooseAuto(n)
  \/ \E i \in 0..(NumMasses - 1) : AutoSetup(i)
  \/ AutoWeigh1
  \/ AutoWeigh2Bal
  \/ AutoWeigh3JK
  \/ AutoWeigh2Unbal
  \/ AutoWeigh3GI
  \/ AutoWeigh3ED
  \/ AutoFinish
  \/ Startover

Spec == Init /\ [][Next]_vars

\* ------------------------------------------ weigh and compare_results alone
\* any registry, any two groups selected from it, any two outcomes
InitPure ==
  /\ pc = "pure"
  /\ method = "None"
  /\ masses \in {setup_masses(i) : i \in 0..(NumMasses - 1)}
  /\ left_side \in {select_masses(masses, get_input(t)) : t \in Selections}
  /\ right_side \in {select_masses(masses, get_input(t)) : t \in Selections}
  /\ result_1 \in BalanceValues
  /\ result_2 \in BalanceValues
  /\ measurements = 0
  /\ weighings = 0
  /\ balance = "None"
  /\ input = <<>>
  /\ answer = <<>>
  /\ result_3 = "None"
  /\ comparisons = <<>>
  /\ final_result = "None"
  /\ log = <<>>
  /\ attempts = 0
  /\ runs = <<>>
  /\ verdict = "None"

PureWeigh ==
  /\ pc = "pure"
  /\ balance = "None"
  /\ balance' = weigh(left_side, right_side)
  /\ weighings' = weighings + 1
  /\ UNCHANGED <<pc, method, masses, left_side, right_side, attempts, runs, verdict>>
  /\ UNCHANGED autoLocals
  /\ UNCHANGED manualLocals

PureCompare ==
  /\ pc = "pure"
  /\ comparisons = <<>>
  /\ comparisons' = <<compare_results(result_1, result_2)>>
  /\ UNCHANGED <<pc, method, masses, weighings, left_side, right_side, balance,
                 answer, result_1, result_2, result_3, final_result, log,
                 attempts, runs, verdict>>
  /\ UNCHANGED manualLocals

NextPure == PureWeigh \/ PureCompare

SpecPure == InitPure /\ [][NextPure]_vars

\* ----------------------------------------------------------------- claims
IsOdd(c) == \E i \in DOMAIN masses : masses[i].name = c /\ masses[i].weight = "Different"
IsNormal(c) == \A i \in DOMAIN masses : masses[i].name = c => masses[i].weight = "Same"

RunOf(left, right, outcome) == [left |-> left, right |-> right, balance |-> outcome]

\* C1: for every placement of the odd mass, the label auto_solve settles on is
\* the label of the odd mass, every run recorded is a Win, and the arm that
\* panics is never taken.
C1_AutoSolveWins ==
  /\ pc # "panic"
  /\ (pc = "a_end" => IsOdd(final_result))
  /\ \A k \in DOMAIN runs :
       /\ runs[k].result = "Win"
       /\ runs[k].answer = <<runs[k].final_result>>

C1_Witness ==
  /\ pc = "done"
  /\ Len(runs) = 2
  /\ runs[1].answer = <<"J">> /\ runs[1].result = "Win"
  /\ runs[2].answer = <<"K">> /\ runs[2].result = "Win"

OddCount(group) == Cardinality({i \in DOMAIN group : group[i].weight = "Different"})

\* C2: weigh returns LeftHeavy iff the left group holds more odd masses than
\* the right, RightHeavy iff fewer, Balanced iff as many, whatever the sizes of
\* the groups and the number of normal masses in them.
C2_WeighCountsOddMasses ==
  (pc = "pure" /\ balance # "None") =>
    /\ balance \in BalanceValues
    /\ (balance = "LeftHeavy") <=> (OddCount(left_side) > OddCount(right_side))
    /\ (balance = "RightHeavy") <=> (OddCount(left_side) < OddCount(right_side))
    /\ (balance = "Balanced") <=> (OddCount(left_side) = OddCount(right_side))
    /\ (left_side = <<>> /\ right_side = <<>> => balance = "Balanced")

C2_Witness ==
  /\ pc = "pure"
  /\ balance = "LeftHeavy"
  /\ Len(left_side) < Len(right_side)

ComparisonTable ==
  [first \in BalanceValues |->
    [second \in BalanceValues |->
      CASE second = "Balanced" -> "Balanced"
        [] first = "LeftHeavy" /\ second = "LeftHeavy" -> "Same"
        [] first = "RightHeavy" /\ second = "RightHeavy" -> "Same"
        [] OTHER -> "Opposite"]]

\* C3: for all nine pairs of outcomes, compare_results is Balanced when the
\* second is Balanced, else Same when the two are equal, else Opposite.
C3_CompareResultsTable ==
  (pc = "pure" /\ comparisons # <<>>) =>
    comparisons = <<ComparisonTable[result_1][result_2]>>

C3_Witness ==
  /\ pc = "pure"
  /\ result_1 = "Balanced"
  /\ result_2 = "LeftHeavy"
  /\ comparisons = <<"Opposite">>

\* C4: in manual_solve the counter starts at 3, falls by one with each weighing
\* and never below 0; the guess is asked after exactly 3 weighings, with the
\* counter at 0, and the session ends with one verdict, Win or Lose.
C4_ManualThreeWeighings ==
  method = "Manual" =>
    /\ measurements \in 0..InitialMeasurements
    /\ measurements + weighings = InitialMeasurements
    /\ (pc \in {"m_left", "m_right"} => measurements > 0 /\ verdict = "None")
    /\ (pc = "m_guess" => measurements = 0 /\ weighings = 3 /\ verdict = "None")
    /\ (pc = "done" => measurements = 0 /\ weighings = 3 /\ verdict \in {"Win", "Lose"})
    /\ pc \in {"m_left", "m_right", "m_guess", "done"}

C4_Witness ==
  /\ method = "Manual"
  /\ pc = "done"
  /\ weighings = 3
  /\ verdict = "Lose"

NoRepeat(group) ==
  \A i, j \in DOMAIN group : i # j => group[i].name # group[j].name

\* C5: a group built from a selection holds every mass at most once.
C5_GroupsHoldNoMassTwice == NoRepeat(left_side) /\ NoRepeat(right_side)

RegistryOK ==
  /\ Len(masses) = NumMasses
  /\ \A i \in 1..NumMasses : masses[i].name = Labels[i]
  /\ \A i \in 1..NumMasses : masses[i].weight \in {"Same", "Different"}
  /\ Cardinality({i \in 1..NumMasses : masses[i].weight = "Different"}) = 1

InSolve ==
  pc \in {"m_left", "m_right", "m_guess", "a_w1", "a_w2bal", "a_w2unbal",
          "a_w3jk", "a_w3gi", "a_w3ed", "a_end"}

\* C6: in a solve session after setup the registry is the 12 masses A..L with
\* exactly one odd mass, and no step of the session changes the registry.
C6_RegistryFixed ==
  /\ [](InSolve => RegistryOK)
  /\ [][(InSolve /\ InSolve') => masses' = masses]_vars

C6_Witness ==
  /\ pc = "m_guess"
  /\ weighings = 3
  /\ balance = "RightHeavy"
  /\ RegistryOK

GuessNamesOdd ==
  \E i \in DOMAIN input :
    /\ \A j \in DOMAIN input : j # i => is_whitespace(input[j])
    /\ \E k \in 1..NumMasses :
         /\ IsOdd(Labels[k])
         /\ input[i] \in {Labels[k], Lowers[k]}

\* C7: the verdict of manual_solve is Win iff the guess, without surrounding
\* whitespace and whatever its case, is the label of the odd mass; else Lose.
C7_ManualVerdict ==
  (method = "Manual" /\ pc = "done") =>
    /\ (verdict = "Win") <=> GuessNamesOdd
    /\ (verdict = "Lose") <=> ~GuessNamesOdd

C7_Witness ==
  /\ method = "Manual"
  /\ pc = "done"
  /\ verdict = "Win"
  /\ input = <<" ", "b", " ", "\n">>

IsPrefix(s, t) == Len(s) <= Len(t) /\ s = SubSeq(t, 1, Len(s))

\* C8: two runs of auto_solve with the same odd mass make the same weighings in
\* the same order and reach the same guess and verdict.
C8_AutoSolveDeterministic ==
  /\ \A i, j \in DOMAIN runs : runs[i].answer = runs[j].answer => runs[i] = runs[j]
  /\ \A i \in DOMAIN runs :
       (InSolve /\ pc # "a_w1" /\ answer = runs[i].answer) => IsPrefix(log, runs[i].log)

C8_Witness ==
  /\ pc = "done"
  /\ Len(runs) = 2
  /\ runs[1].answer = <<"G">>
  /\ runs[2].answer = <<"G">>
  /\ Len(runs[2].log) = 3

TwoWeighingsOfL(l) ==
  l = <<RunOf(Str_ABCD, Str_EFGH, "Balanced"), RunOf(Str_IJ, Str_KA, "Balanced")>>

\* C9: auto_solve makes at most 3 weighings; it stops after 2 (ABCD vs EFGH and
\* IJ vs KA, both Balanced) iff the odd mass is L, and makes 3 otherwise.
C9_WeighingCount ==
  /\ Len(log) <= 3
  /\ (method = "Auto" => weighings = Len(log))
  /\ (pc = "a_end" =>
        /\ Len(log) \in {2, 3}
        /\ (Len(log) = 2) <=> IsOdd("L")
        /\ (Len(log) = 2) => TwoWeighingsOfL(log))
  /\ \A k \in DOMAIN runs :
        /\ Len(runs[k].log) \in {2, 3}
        /\ (Len(runs[k].log) = 2) <=> (runs[k].answer = <<"L">>)
        /\ (Len(runs[k].log) = 2) => TwoWeighingsOfL(runs[k].log)

C9_Witness ==
  /\ pc = "a_end"
  /\ IsOdd("L")
  /\ Len(log) = 2

\* C10: the masses auto_solve weighs as known-normal references are normal
\* whenever the weighing is made: A in IJ vs KA, A and B in JK vs AB, I in
\* G vs I.
C10_ReferencesAreNormal ==
  \A k \in DOMAIN log :
    /\ (log[k].left = Str_IJ /\ log[k].right = Str_KA) => IsNormal("A")
    /\ (log[k].left = Str_JK /\ log[k].right = Str_AB) => IsNormal("A") /\ IsNormal("B")
    /\ (log[k].left = Str_G /\ log[k].right = Str_I) => IsNormal("I")

C10_Witness ==
  /\ Len(log) = 3
  /\ log[2].right = Str_KA
  /\ log[3].right = Str_AB
  /\ IsOdd("K")

====
